---- MODULE Spec2Model ----
(***************************************************************************)
(* Model of the RSpace workshop scripts:                                   *)
(*   scripts/document_from_experiment.py  (walk, upload loop, content      *)
(*                                         loop, create_document call)     *)
(*   scripts/create_document.py           (create_document, __main__)      *)
(*                                                                         *)
(* A directory tree is a set of entries 0..n, entry 0 being the path given *)
(* on the command line.  Path.iterdir() is modelled as yielding the        *)
(* children of a directory in ascending entry number.  Strings whose       *)
(* characters matter (Path.suffix, --ignore) are sequences of characters.  *)
(***************************************************************************)
EXTENDS Integers, Sequences, FiniteSets, TLC

\* ---------------------------------------------------------------- bounds
MaxEntries == 3
TagMaxEntries == 1

\* ------------------------------------------------------------- constants
DefaultMaxFilesize == 2
BytesPerMB == 1000000

\* ----------------------------------------------------------- input sets
NoSuffix == << >>
SuffixJson == <<".", "j", "s", "o", "n">>
SuffixMd == <<".", "m", "d">>
SuffixJs == <<".", "j", "s">>

Suffixes == {NoSuffix, SuffixJson, SuffixMd, SuffixJs}

\* st_size values on both sides of the default limit of 2.0 MB
Sizes == {2000000, 2000001}

\* ignore_files after lines 255-258: the empty list, or the --ignore string
IgnoreEmptyList == [kind |-> "list", str |-> << >>]
IgnoreStr(s) == [kind |-> "str", str |-> s]

IgnoreArgs == {IgnoreEmptyList, IgnoreStr(SuffixJson)}

\* a tags argument: None, one string, or a list of strings
NoneValue == [kind |-> "none", str |-> "", list |-> << >>]
StrValue(s) == [kind |-> "str", str |-> s, list |-> << >>]
ListValue(l) == [kind |-> "list", str |-> "", list |-> l]

\* args.tags of document_from_experiment.py: the default, --tags alone,
\* --tags foo, --tags API
DfeTagArgs ==
    {ListValue(<<"API">>), NoneValue, StrValue("foo"), StrValue("API")}

\* tags of create_document(): None, a string, or a list
CdTagArgs ==
    {NoneValue, StrValue("foo"), StrValue("API"),
     ListValue(<<"foo">>), ListValue(<<"API", "foo">>),
     ListValue(<<"foo", "bar">>)}

EntryKinds == {"dir", "file", "other"}
RootKinds == {"dir", "file", "missing"}

VARIABLES
    program,          \* which script runs
    pc,               \* position of the script
    kind,             \* entry -> "dir" | "file" | "other" | "missing"
    parent,           \* entry (not the root) -> its directory
    suffix,           \* entry -> Path.suffix
    size,             \* entry -> st_size in bytes
    process_subdir,   \* argument of list_files
    ignore_files,     \* args.ignore after lines 255-258
    max_filesize,     \* args.max_filesize, in MB
    tags,             \* args.tags
    dry,              \* args.dry (create_document.py)
    files,            \* result of list_files
    ui,               \* index of the upload loop (line 288)
    ci,               \* index of the content loop (line 309)
    uploaded_files,   \* responses of successful uploads
    document,         \* the document text, as a sequence of pieces
    uploadCalls,      \* history: entries handed to client.upload_file
    sizeChecks,       \* history: entries whose size was compared (line 196)
    outcomes,         \* history: branch the upload loop took for each file
    transportFailed,  \* history: entries whose upload_file call raised
    transcodeFailed,  \* history: entries whose file2html call raised
    createCalls       \* history: client.create_document calls

vars == <<program, pc, kind, parent, suffix, size, process_subdir,
          ignore_files, max_filesize, tags, dry, files, ui, ci,
          uploaded_files, document, uploadCalls, sizeChecks, outcomes,
          transportFailed, transcodeFailed, createCalls>>

treeVars == <<kind, parent, suffix, size>>
argVars == <<program, process_subdir, ignore_files, max_filesize, tags, dry>>

\* ------------------------------------------------------------ the tree
Root == 0

Entries == DOMAIN kind

\* Path.iterdir(): the children of a directory, in ascending entry number
RECURSIVE ChildrenFrom(_, _)
ChildrenFrom(directory, n) ==
    IF n \notin Entries THEN << >>
    ELSE IF n # Root /\ parent[n] = directory
         THEN <<n>> \o ChildrenFrom(directory, n + 1)
         ELSE ChildrenFrom(directory, n + 1)

iterdir(directory) == ChildrenFrom(directory, 1)

Raised == [ok |-> FALSE, files |-> << >>]
Returned(fs) == [ok |-> TRUE, files |-> fs]

\* list_files: the loop over directory.iterdir() from child number i on,
\* with the files collected so far; a raise anywhere ends the whole call
RECURSIVE list_files(_, _)
RECURSIVE list_files_loop(_, _, _, _)
RECURSIVE list_files_loop_AlwaysDescend(_, _, _, _)

\* the loop of list_files without the test of line 123
list_files_loop_AlwaysDescend(children, i, acc, subdirs) ==
    IF i > Len(children) THEN Returned(acc)
    ELSE LET child == children[i] IN
         IF kind[child] = "dir" THEN
             LET subdir_children == list_files(child, subdirs) IN
             IF subdir_children.ok
             THEN list_files_loop_AlwaysDescend(children, i + 1,
                                  acc \o subdir_children.files, subdirs)
             ELSE Raised
         ELSE IF kind[child] = "file" THEN
             list_files_loop_AlwaysDescend(children, i + 1,
                                           Append(acc, child), subdirs)
         ELSE Raised

list_files_loop(children, i, acc, subdirs) ==
    IF i > Len(children) THEN Returned(acc)
    ELSE LET child == children[i] IN
         IF kind[child] = "dir" THEN
             IF subdirs THEN
                 LET subdir_children == list_files(child, subdirs) IN
                 IF subdir_children.ok
                 THEN list_files_loop(children, i + 1,
                                      acc \o subdir_children.files, subdirs)
                 ELSE Raised
             ELSE list_files_loop(children, i + 1, acc, subdirs)
         ELSE IF kind[child] = "file" THEN
             list_files_loop(children, i + 1, Append(acc, child), subdirs)
         ELSE Raised

\* list_files without the check of line 118
list_files_NoRootCheck(directory, subdirs) ==
    list_files_loop(iterdir(directory), 1, << >>, subdirs)

list_files(directory, subdirs) ==
    IF kind[directory] = "dir"
    THEN list_files_loop(iterdir(directory), 1, << >>, subdirs)
    ELSE Raised

\* ------------------------------------------------------------- strings
\* Python's  a in b  for two strings
StrIn(a, b) ==
    \E i \in 0..(Len(b) - Len(a)) : SubSeq(b, i + 1, i + Len(a)) = a

\* line 289 with the test inverted
SuffixIgnored_Inverted(f) ==
    IF ignore_files.kind = "str" THEN ~StrIn(suffix[f], ignore_files.str)
    ELSE FALSE

\* file.suffix in ignore_files  (line 289): ignore_files is [] or a string
SuffixIgnored(f) ==
    IF ignore_files.kind = "str" THEN StrIn(suffix[f], ignore_files.str)
    ELSE FALSE

\* Python's  x in l  for a list l
InList(x, l) == \E i \in 1..Len(l) : l[i] = x

\* line 196 with a binary megabyte (2^20 bytes) for the 1e-6 factor
SizeAdmitted_BinaryMB(f, filesize_limit) == size[f] <= filesize_limit * 1048576

\* path.stat().st_size * 1e-6 <= filesize_limit  (line 196)
SizeAdmitted(f, filesize_limit) == size[f] <= filesize_limit * BytesPerMB


\* ------------------------------------------------- upload_file_from_path
\* The call for entry f when the remote answers  remote  ("ok" | "raise"):
\* checked: the size was compared; called: client.upload_file was invoked;
\* raised: the call ended in an exception (error names it)
upload_file_from_path(f, filesize_limit, remote) ==
    IF SizeAdmitted(f, filesize_limit)
    THEN [checked |-> TRUE, called |-> TRUE, raised |-> remote = "raise",
          error |-> IF remote = "raise" THEN "transport" ELSE "none"]
    ELSE [checked |-> TRUE, called |-> FALSE, raised |-> TRUE,
          error |-> "ValueError"]

\* ----------------------------------------------------------- file2html
\* The text of entry f as html: read_text raises on an unreadable file,
\* json2html.convert raises on malformed JSON, markdown never raises,
\* other suffixes are returned as read
file2html(f, readable, wellFormed) ==
    IF ~readable THEN [ok |-> FALSE, text |-> "none"]
    ELSE IF suffix[f] = SuffixMd THEN [ok |-> TRUE, text |-> "markdown_html"]
    ELSE IF suffix[f] = SuffixJson THEN
        IF wellFormed THEN [ok |-> TRUE, text |-> "json_table"]
        ELSE [ok |-> FALSE, text |-> "none"]
    ELSE [ok |-> TRUE, text |-> "raw"]

\* ------------------------------------------------ create_document (tags)
\* lines 56-63 of create_document.py
create_document_tags(t) ==
    LET t1 == IF t.kind = "none" THEN ListValue(<<"API">>) ELSE t
        t2 == IF t1.kind = "str" THEN ListValue(<<t1.str>>) ELSE t1
    IN  IF ~InList("API", t2.list)
        THEN ListValue(Append(t2.list, "API"))
        ELSE t2

\* ------------------------------------------------------ document pieces
Piece(tag, f, id, sz, limit, text) ==
    [tag |-> tag, file |-> f, id |-> id, size |-> sz, limit |-> limit,
     text |-> text]

\* lines 282-284
HeaderPiece == Piece("header", Root, 0, 0, 0, "h1")
\* line 303:  <li>{file} ({size} MB > {max_filesize} MB) </li>
SizeEntry(f) == Piece("li_size_exceeds", f, 0, size[f], max_filesize, "")
\* line 305:  <li>{file}: <fileId={id}></li>
IdEntry(f, id) == Piece("li_fileId", f, id, 0, 0, "")
\* line 307
ListEndPiece == Piece("ul_end", Root, 0, 0, 0, "")
\* line 311:  <hr>```{file}```\n{file2html(file)}\n<hr>
ContentBlock(f, text) == Piece("hr_block", f, 0, 0, 0, text)

IsManifestEntry(p) == p.tag \in {"li_size_exceeds", "li_fileId"}
IsContentBlock(p) == p.tag = "hr_block"

Manifest == SelectSeq(document, IsManifestEntry)
Content == SelectSeq(document, IsContentBlock)

\* ---------------------------------------------------------------- Init
Trees(maxN) ==
    UNION { { t \in [kind : [0..n -> EntryKinds \cup RootKinds],
                     parent : [1..n -> 0..(n - 1)]] :
                /\ t.kind[0] \in RootKinds
                /\ \A e \in 1..n : /\ t.kind[e] \in EntryKinds
                                   /\ t.parent[e] < e
                                   /\ t.kind[t.parent[e]] = "dir" }
            : n \in 0..maxN }

TreeInit(maxN) ==
    \E t \in Trees(maxN) :
        /\ kind = t.kind
        /\ parent = t.parent
        /\ suffix \in [DOMAIN t.kind -> Suffixes]
        /\ size \in [DOMAIN t.kind -> Sizes]
        /\ \A e \in DOMAIN t.kind :
               t.kind[e] # "file" => suffix[e] = NoSuffix /\ size[e] = 2000000

RunInit ==
    /\ pc = "start"
    /\ files = << >>
    /\ ui = 1
    /\ ci = 1
    /\ uploaded_files = << >>
    /\ document = << >>
    /\ uploadCalls = << >>
    /\ sizeChecks = << >>
    /\ outcomes = << >>
    /\ transportFailed = {}
    /\ transcodeFailed = {}
    /\ createCalls = << >>

\* document_from_experiment.py started with the default --tags
Init ==
    /\ program = "document_from_experiment"
    /\ TreeInit(MaxEntries)
    /\ process_subdir = TRUE
    /\ ignore_files \in IgnoreArgs
    /\ max_filesize = DefaultMaxFilesize
    /\ tags = ListValue(<<"API">>)
    /\ dry = FALSE
    /\ RunInit

\* --------------------------------------------------------------- walk
\* line 277: list_files returns; lines 279-287
ListFiles ==
    /\ program = "document_from_experiment"
    /\ pc = "start"
    /\ list_files(Root, process_subdir).ok
    /\ files' = list_files(Root, process_subdir).files
    /\ document' = <<HeaderPiece>>
    /\ pc' = "upload"
    /\ UNCHANGED <<treeVars, argVars, ui, ci, uploaded_files, uploadCalls,
                   sizeChecks, outcomes, transportFailed, transcodeFailed,
                   createCalls>>

\* line 277: list_files raises ValueError, which nothing catches
ListFilesRaises ==
    /\ program = "document_from_experiment"
    /\ pc = "start"
    /\ ~list_files(Root, process_subdir).ok
    /\ pc' = "aborted"
    /\ UNCHANGED <<treeVars, argVars, files, ui, ci, uploaded_files, document,
                   uploadCalls, sizeChecks, outcomes, transportFailed,
                   transcodeFailed, createCalls>>

\* -------------------------------------------------------- upload loop
InUploadLoop == pc = "upload" /\ ui <= Len(files)

\* lines 289-293: the suffix is ignored
IgnoreFile ==
    /\ InUploadLoop
    /\ SuffixIgnored(files[ui])
    /\ outcomes' = Append(outcomes, "SKIPPED")
    /\ ui' = ui + 1
    /\ UNCHANGED <<treeVars, argVars, pc, files, ci, uploaded_files, document,
                   uploadCalls, sizeChecks, transportFailed, transcodeFailed,
                   createCalls>>

\* lines 296-297, 305: the upload returns a response with an id
UploadFile ==
    /\ InUploadLoop
    /\ ~SuffixIgnored(files[ui])
    /\ LET f == files[ui]
           r == upload_file_from_path(f, max_filesize, "ok")
           id == Len(uploaded_files) + 1
       IN  /\ ~r.raised
           /\ sizeChecks' = Append(sizeChecks, f)
           /\ uploadCalls' = Append(uploadCalls, f)
           /\ uploaded_files' = Append(uploaded_files, id)
           /\ document' = Append(document, IdEntry(f, id))
           /\ outcomes' = Append(outcomes, "SUCCEEDED")
    /\ ui' = ui + 1
    /\ UNCHANGED <<treeVars, argVars, pc, files, ci, transportFailed,
                   transcodeFailed, createCalls>>

\* the except branch without line 303
UploadOversize_NoEntry ==
    /\ InUploadLoop
    /\ ~SuffixIgnored(files[ui])
    /\ LET f == files[ui]
           r == upload_file_from_path(f, max_filesize, "ok")
       IN  /\ r.raised /\ ~r.called
           /\ sizeChecks' = Append(sizeChecks, f)
           /\ outcomes' = Append(outcomes, "REJECTED_ValueError")
    /\ ui' = ui + 1
    /\ UNCHANGED <<treeVars, argVars, pc, files, ci, uploaded_files, document,
                   uploadCalls, transportFailed, transcodeFailed, createCalls>>

\* lines 296, 210, 298-303: the size check raises ValueError
UploadOversize ==
    /\ InUploadLoop
    /\ ~SuffixIgnored(files[ui])
    /\ LET f == files[ui]
           r == upload_file_from_path(f, max_filesize, "ok")
       IN  /\ r.raised /\ ~r.called
           /\ sizeChecks' = Append(sizeChecks, f)
           /\ document' = Append(document, SizeEntry(f))
           /\ outcomes' = Append(outcomes, "REJECTED_ValueError")
    /\ ui' = ui + 1
    /\ UNCHANGED <<treeVars, argVars, pc, files, ci, uploaded_files,
                   uploadCalls, transportFailed, transcodeFailed, createCalls>>

\* the upload loop without the try/except of lines 295-303
UploadRaises_Uncaught ==
    /\ InUploadLoop
    /\ ~SuffixIgnored(files[ui])
    /\ LET f == files[ui]
           r == upload_file_from_path(f, max_filesize, "raise")
       IN  /\ r.raised /\ r.called
           /\ sizeChecks' = Append(sizeChecks, f)
           /\ uploadCalls' = Append(uploadCalls, f)
           /\ transportFailed' = transportFailed \cup {f}
    /\ pc' = "aborted"
    /\ UNCHANGED <<treeVars, argVars, files, ui, ci, uploaded_files, document,
                   outcomes, transcodeFailed, createCalls>>

\* lines 296, 201, 298-303: client.upload_file raises
UploadRaises ==
    /\ InUploadLoop
    /\ ~SuffixIgnored(files[ui])
    /\ LET f == files[ui]
           r == upload_file_from_path(f, max_filesize, "raise")
       IN  /\ r.raised /\ r.called
           /\ sizeChecks' = Append(sizeChecks, f)
           /\ uploadCalls' = Append(uploadCalls, f)
           /\ transportFailed' = transportFailed \cup {f}
           /\ document' = Append(document, SizeEntry(f))
           /\ outcomes' = Append(outcomes, "REJECTED_transport")
    /\ ui' = ui + 1
    /\ UNCHANGED <<treeVars, argVars, pc, files, ci, uploaded_files,
                   transcodeFailed, createCalls>>

\* line 307: the loop is over
EndUploadLoop ==
    /\ pc = "upload"
    /\ ui > Len(files)
    /\ document' = Append(document, ListEndPiece)
    /\ pc' = "content"
    /\ UNCHANGED <<treeVars, argVars, files, ui, ci, uploaded_files,
                   uploadCalls, sizeChecks, outcomes, transportFailed,
                   transcodeFailed, createCalls>>

\* ------------------------------------------------------- content loop
InContentLoop == pc = "content" /\ ci <= Len(files)

\* line 311: file2html returns and the block is appended
AppendContent ==
    /\ InContentLoop
    /\ \E readable \in BOOLEAN, wellFormed \in BOOLEAN :
           LET r == file2html(files[ci], readable, wellFormed)
           IN  /\ r.ok
               /\ document' = Append(document, ContentBlock(files[ci], r.text))
    /\ ci' = ci + 1
    /\ UNCHANGED <<treeVars, argVars, pc, files, ui, uploaded_files,
                   uploadCalls, sizeChecks, outcomes, transportFailed,
                   transcodeFailed, createCalls>>

\* the content loop without the try/except of lines 310-314
ContentRaises_Uncaught ==
    /\ InContentLoop
    /\ \E readable \in BOOLEAN, wellFormed \in BOOLEAN :
           ~file2html(files[ci], readable, wellFormed).ok
    /\ transcodeFailed' = transcodeFailed \cup {files[ci]}
    /\ pc' = "aborted"
    /\ UNCHANGED <<treeVars, argVars, files, ui, ci, uploaded_files, document,
                   uploadCalls, sizeChecks, outcomes, transportFailed,
                   createCalls>>

\* lines 311-314: file2html raises; the error is logged
ContentRaises ==
    /\ InContentLoop
    /\ \E readable \in BOOLEAN, wellFormed \in BOOLEAN :
           ~file2html(files[ci], readable, wellFormed).ok
    /\ transcodeFailed' = transcodeFailed \cup {files[ci]}
    /\ ci' = ci + 1
    /\ UNCHANGED <<treeVars, argVars, pc, files, ui, uploaded_files, document,
                   uploadCalls, sizeChecks, outcomes, transportFailed,
                   createCalls>>

\* ---------------------------------------------------- create_document
DfeCall == [program |-> program, tags |-> tags, content |-> document]

\* lines 328-334: client.create_document returns
CreateDocument ==
    /\ pc = "content"
    /\ ci > Len(files)
    /\ createCalls' = Append(createCalls, DfeCall)
    /\ pc' = "done"
    /\ UNCHANGED <<treeVars, argVars, files, ui, ci, uploaded_files, document,
                   uploadCalls, sizeChecks, outcomes, transportFailed,
                   transcodeFailed>>

\* line 328 inside a retry loop
CreateDocumentRaises_Retry ==
    /\ pc = "content"
    /\ ci > Len(files)
    /\ createCalls' = Append(createCalls, DfeCall)
    /\ UNCHANGED <<treeVars, argVars, pc, files, ui, ci, uploaded_files,
                   document, uploadCalls, sizeChecks, outcomes,
                   transportFailed, transcodeFailed>>

\* line 328: client.create_document raises, which nothing catches
CreateDocumentRaises ==
    /\ pc = "content"
    /\ ci > Len(files)
    /\ createCalls' = Append(createCalls, DfeCall)
    /\ pc' = "failed"
    /\ UNCHANGED <<treeVars, argVars, files, ui, ci, uploaded_files, document,
                   uploadCalls, sizeChecks, outcomes, transportFailed,
                   transcodeFailed>>

\* ------------------------------------------------- create_document.py
CdCall == [program |-> program, tags |-> create_document_tags(tags),
           content |-> << >>]

\* lines 166-169: --dry, create_document is not called
CdDryRun ==
    /\ program = "create_document"
    /\ pc = "start"
    /\ dry
    /\ pc' = "done"
    /\ UNCHANGED <<treeVars, argVars, files, ui, ci, uploaded_files, document,
                   uploadCalls, sizeChecks, outcomes, transportFailed,
                   transcodeFailed, createCalls>>

\* line 52: client.get_documents raises before the document is created
CdGetDocumentsRaises ==
    /\ program = "create_document"
    /\ pc = "start"
    /\ ~dry
    /\ pc' = "failed"
    /\ UNCHANGED <<treeVars, argVars, files, ui, ci, uploaded_files, document,
                   uploadCalls, sizeChecks, outcomes, transportFailed,
                   transcodeFailed, createCalls>>

\* lines 52-74: the tags are completed and client.create_document is called;
\* the call, or the get_documents after it, returns or raises
CdCreateDocument ==
    /\ program = "create_document"
    /\ pc = "start"
    /\ ~dry
    /\ createCalls' = Append(createCalls, CdCall)
    /\ \E end \in {"done", "failed"} : pc' = end
    /\ UNCHANGED <<treeVars, argVars, files, ui, ci, uploaded_files, document,
                   uploadCalls, sizeChecks, outcomes, transportFailed,
                   transcodeFailed>>

\* ------------------------------------------------------ specifications
Next ==
    \/ ListFiles
    \/ ListFilesRaises
    \/ IgnoreFile
    \/ UploadFile
    \/ UploadOversize
    \/ UploadRaises
    \/ EndUploadLoop
    \/ AppendContent
    \/ ContentRaises
    \/ CreateDocument
    \/ CreateDocumentRaises

\* a run of document_from_experiment.py with the default --tags
Spec == Init /\ [][Next]_vars

\* list_files called with either value of process_subdir
WalkInit ==
    /\ program = "document_from_experiment"
    /\ TreeInit(MaxEntries)
    /\ process_subdir \in BOOLEAN
    /\ ignore_files = IgnoreEmptyList
    /\ max_filesize = DefaultMaxFilesize
    /\ tags = ListValue(<<"API">>)
    /\ dry = FALSE
    /\ RunInit

WalkNext ==
    \/ ListFiles
    \/ ListFilesRaises

WalkSpec == WalkInit /\ [][WalkNext]_vars

\* both scripts with every tags argument, over trees of few entries
TagInit ==
    /\ \/ /\ program = "document_from_experiment"
          /\ TreeInit(TagMaxEntries)
          /\ ignore_files \in IgnoreArgs
          /\ tags \in DfeTagArgs
          /\ dry = FALSE
       \/ /\ program = "create_document"
          /\ TreeInit(0)
          /\ ignore_files = IgnoreEmptyList
          /\ tags \in CdTagArgs
          /\ dry \in BOOLEAN
    /\ process_subdir = TRUE
    /\ max_filesize = DefaultMaxFilesize
    /\ RunInit

TagNext ==
    \/ ListFiles
    \/ ListFilesRaises
    \/ IgnoreFile
    \/ UploadFile
    \/ UploadOversize
    \/ UploadRaises
    \/ EndUploadLoop
    \/ AppendContent
    \/ ContentRaises
    \/ CreateDocument
    \/ CreateDocumentRaises
    \/ CdDryRun
    \/ CdGetDocumentsRaises
    \/ CdCreateDocument

TagSpec == TagInit /\ [][TagNext]_vars

\* -------------------------------------------------------------- claims
Count(seq, x) == Cardinality({i \in 1..Len(seq) : seq[i] = x})
InSeq(x, seq) == \E i \in 1..Len(seq) : seq[i] = x
FilesOf(pieces) == [i \in 1..Len(pieces) |-> pieces[i].file]

\* the files of the walk, in walk order, whose index satisfies keep
RECURSIVE KeptFrom(_, _)
KeptFrom(i, keep) ==
    IF i > Len(files) THEN << >>
    ELSE IF i \in keep THEN <<files[i]>> \o KeptFrom(i + 1, keep)
         ELSE KeptFrom(i + 1, keep)

Processed == 1..(ui - 1)
WithinLimit(f) == size[f] <= max_filesize * BytesPerMB
UploadLoopOver == pc \in {"content", "done", "failed"}
RunOver == pc \in {"done", "failed"}

\* C1: a transport error of one upload never ends the run: the run is never
\* aborted after one, it can always take its next step until the
\* create_document call, every file is processed, and every processed file
\* that is not skipped and whose size is within the limit has had exactly one
\* client.upload_file call, whatever happened to the files before it.
C1_FailureIsolation ==
    /\ transportFailed # {} => pc # "aborted"
    /\ (transportFailed # {} /\ ~RunOver) => ENABLED Next
    /\ UploadLoopOver => ui = Len(files) + 1
    /\ RunOver => Len(createCalls) = 1
    /\ \A i \in Processed :
           (outcomes[i] # "SKIPPED" /\ WithinLimit(files[i]))
               => Count(uploadCalls, files[i]) = 1

\* a finished run in which an upload raised and a later file was uploaded
C1_Witness ==
    /\ pc = "done"
    /\ \E i, j \in 1..Len(outcomes) :
           /\ i < j
           /\ outcomes[i] = "REJECTED_transport"
           /\ outcomes[j] = "SUCCEEDED"
           /\ Count(uploadCalls, files[j]) = 1

\* C2 as stated: every processed file whose size exceeds the limit has a
\* manifest entry stating that its size exceeds the limit, and
\* client.upload_file is never invoked for it.
C2_Original ==
    \A i \in Processed :
        ~WithinLimit(files[i]) =>
            /\ InSeq(SizeEntry(files[i]), Manifest)
            /\ ~InSeq(files[i], uploadCalls)

\* C2 amended: every processed file that is not skipped and whose size
\* exceeds the limit is rejected by the size check, has a manifest entry
\* stating its size and the limit, and is never handed to client.upload_file;
\* no file of any kind is handed to client.upload_file when its size exceeds
\* the limit, and every file handed to it had its size checked.
C2_OversizeRejected ==
    /\ \A i \in Processed :
           (~WithinLimit(files[i]) /\ outcomes[i] # "SKIPPED") =>
               /\ outcomes[i] = "REJECTED_ValueError"
               /\ InSeq(SizeEntry(files[i]), Manifest)
    /\ \A i \in 1..Len(files) :
           ~WithinLimit(files[i]) => ~InSeq(files[i], uploadCalls)
    /\ \A k \in 1..Len(uploadCalls) : InSeq(uploadCalls[k], sizeChecks)

\* a finished run with an oversize file that was rejected and another file
\* that was uploaded
C2_Witness ==
    /\ pc = "done"
    /\ \E i, j \in 1..Len(outcomes) :
           /\ ~WithinLimit(files[i])
           /\ outcomes[i] = "REJECTED_ValueError"
           /\ outcomes[j] = "SUCCEEDED"

\* C3: every processed file whose suffix is the --ignore string is skipped:
\* its size is not checked and client.upload_file is not invoked for it.
C3_SkippedUntouched ==
    \A i \in Processed :
        (ignore_files.kind = "str" /\ suffix[files[i]] = ignore_files.str) =>
            /\ outcomes[i] = "SKIPPED"
            /\ ~InSeq(files[i], sizeChecks)
            /\ ~InSeq(files[i], uploadCalls)

\* a finished run with a file of the ignored suffix and an uploaded file
C3_Witness ==
    /\ pc = "done"
    /\ ignore_files.kind = "str"
    /\ \E i, j \in 1..Len(files) :
           /\ suffix[files[i]] = ignore_files.str
           /\ outcomes[i] = "SKIPPED"
           /\ outcomes[j] = "SUCCEEDED"

C6_TrueRejectionReason ==
    \A k \in 1..Len(Manifest) :
        Manifest[k].tag = "li_size_exceeds" =>
            /\ Manifest[k].size > Manifest[k].limit * BytesPerMB
            /\ Manifest[k].file \notin transportFailed

\* C7: when the root is not an existing directory, or some entry of the tree
\* is neither a file nor a directory, the run never leaves its start except
\* to abort, with no client.upload_file and no create_document call.
BadTree ==
    \/ kind[Root] # "dir"
    \/ \E e \in Entries : kind[e] = "other"

C7_PreconditionFatal ==
    BadTree =>
        /\ pc \in {"start", "aborted"}
        /\ uploadCalls = << >>
        /\ sizeChecks = << >>
        /\ createCalls = << >>
        /\ document = << >>

\* the run aborted on a tree where a file is enumerated before the bad entry
C7_Witness ==
    /\ pc = "aborted"
    /\ \E e1, e2 \in Entries \ {Root} :
           /\ e1 < e2
           /\ parent[e1] = Root /\ kind[e1] = "file"
           /\ parent[e2] = Root /\ kind[e2] = "other"

\* C8: a run whose walk succeeded makes at most one create_document call,
\* makes it only after the upload loop and the content loop have processed
\* every walked file, can always take its next step until that call, is over
\* with exactly one call, and takes no further step once the call has
\* failed.
C8_CreateOnceAtTheEnd ==
    /\ Len(createCalls) <= 1
    /\ Len(createCalls) = 1 =>
           /\ RunOver
           /\ ui = Len(files) + 1 /\ Len(outcomes) = Len(files)
           /\ ci = Len(files) + 1
           /\ Len(Content) + Cardinality(transcodeFailed) = Len(files)
           /\ createCalls[1].content = document
    /\ RunOver => Len(createCalls) = 1
    /\ pc \in {"upload", "content"} => ENABLED Next
    /\ RunOver => ~ENABLED Next

\* the single create_document call failed at the end of a run over two or
\* more files
C8_Witness ==
    /\ pc = "failed"
    /\ Len(createCalls) = 1
    /\ Len(files) >= 2
    /\ ui = Len(files) + 1
    /\ ci = Len(files) + 1

\* C9: when list_files returns, it returns no directory and no entry twice;
\* with process_subdir false it returns exactly the files directly in the
\* directory, with process_subdir true exactly the files of the whole tree.
Elements(seq) == {seq[i] : i \in 1..Len(seq)}
DirectFiles == {e \in Entries \ {Root} : kind[e] = "file" /\ parent[e] = Root}
AllFiles == {e \in Entries \ {Root} : kind[e] = "file"}

C9_ListFilesResult ==
    pc = "upload" =>
        /\ \A i \in 1..Len(files) : kind[files[i]] = "file"
        /\ Cardinality(Elements(files)) = Len(files)
        /\ ~process_subdir => Elements(files) = DirectFiles
        /\ process_subdir => Elements(files) = AllFiles

\* list_files returned without descending, from a directory that holds a
\* file and a subdirectory with a file of its own
C9_Witness ==
    /\ pc = "upload"
    /\ ~process_subdir
    /\ DirectFiles # {}
    /\ AllFiles # DirectFiles
    /\ Elements(files) = DirectFiles

\* C10: every create_document call of either script carries tags that
\* contain "API".
HasBaselineTag(t) ==
    \/ t.kind = "list" /\ InList("API", t.list)
    \/ t.kind = "str" /\ t.str = "API"

C10_BaselineTag ==
    \A k \in 1..Len(createCalls) : HasBaselineTag(createCalls[k].tags)

\* C11: a processed file is skipped only if its suffix is the --ignore
\* string itself; every other processed file (no suffix, or a suffix that is
\* only a part of the --ignore string) has its size checked and, when its
\* size is within the limit, is handed to client.upload_file.
SuffixListed(f) ==
    ignore_files.kind = "str" /\ suffix[f] = ignore_files.str

C11_SkippedOnlyIfListed ==
    \A i \in Processed :
        ~SuffixListed(files[i]) =>
            /\ outcomes[i] # "SKIPPED"
            /\ InSeq(files[i], sizeChecks)
            /\ WithinLimit(files[i]) => InSeq(files[i], uploadCalls)

====
